---- MODULE Spec2Model ----
(***************************************************************************)
(* Model of the command-execution and streaming pipeline of the            *)
(* vm-orchestrator proof of concept (src/src/server.js with the schema of  *)
(* database.sql).                                                          *)
(*                                                                         *)
(* The server is a single Node.js event loop.  Every `await db.query(..)`  *)
(* is a suspension point: the query is handed to the pg Pool, the database *)
(* executes it on one of the pool's connections, and the continuation of   *)
(* the async function runs later on the event loop.  Queries that are in   *)
(* flight at the same time run on different pool connections, so the       *)
(* database may execute them, and the loop may resume them, in any order.  *)
(* One model action is one run-to-completion step of the event loop or one *)
(* statement executed by the database.                                     *)
(***************************************************************************)
EXTENDS Integers, Sequences, FiniteSets, TLC

VARIABLES
    serverUp,   \* the Node.js process is alive
    uuids,      \* number of ids handed out by uuidv4()
    req,        \* req[r]: the r-th execute-command request and its handler position
    proc,       \* proc[r]: the child process spawned by request r
    chunks,     \* chunks[r][s]: the data callbacks of stream s, in read order
    fin,        \* fin[r]: the close callback of request r
    jobs,       \* table jobs: a set of rows
    job_logs,   \* table job_logs: rows in insertion order
    now,        \* the database clock read by NOW()
    events,     \* events[c]: what socket.emit sent on connection c, in order
    faults,     \* number of failures the environment has produced so far
    connected,  \* connected[c]: the socket of connection c is open
    http        \* the GET /api/jobs request being served and its response

vars == <<serverUp, uuids, req, proc, chunks, fin, jobs, job_logs, now, events, faults,
          connected, http>>

----------------------------------------------------------------------------
(* Bounds *)

MaxReqs == 1        \* execute-command requests received
MaxChunks == 2      \* chunks read from all processes together
MaxFaults == 1      \* failed store queries and failed process launches
PairReqs == 2       \* execute-command requests received when jobs run side by side
MaxJobs == 15       \* job rows in the store when the history is queried
MaxInFlight == 2    \* of these, requests being served at the same time

(* Inputs: one registered key (the registry entries differ only in the type
   and command text they store), one unknown key, one key that names a member
   of Object.prototype. *)

Reqs == 1..(IF MaxReqs > PairReqs THEN MaxReqs ELSE PairReqs)
Conns == {1, 2}
Keys == {"vm-status", "nope", "constructor"}
Streams == {"stdout", "stderr"}
NULL == -1          \* SQL NULL / JavaScript null in an integer column or field
ExitCodes == {0, 1, NULL}
SpawnOutcomes == {"ok", "throw", "error_event"}
Limits == {NULL, 3, 12}     \* ?limit=N of GET /api/jobs; NULL: no parameter

----------------------------------------------------------------------------
(* The command registry and the property lookup COMMANDS[key] *)

COMMANDS ==
    [k \in {"vm-status", "vm-logs", "docker-ps"} |->
        CASE k = "vm-status" -> [type |-> "local", cmd |-> "echo",
                                 args |-> <<"Simulating make status...done.">>]
          [] k = "vm-logs"   -> [type |-> "local", cmd |-> "echo",
                                 args |-> <<"Simulating make logs...fake log output.">>]
          [] k = "docker-ps" -> [type |-> "ssh", cmd |-> "echo",
                                 args |-> <<"Simulating ssh command...container up.">>]]

\* Property names every object literal inherits from Object.prototype.
ObjectPrototypeKeys == {"constructor", "toString", "valueOf", "hasOwnProperty", "__proto__"}

\* COMMANDS[key]: an own property gives the spec, an inherited one gives a
\* truthy value that has no cmd and no args, anything else gives undefined.
Lookup(key) ==
    IF key \in DOMAIN COMMANDS THEN [kind |-> "spec", c |-> COMMANDS[key]]
    ELSE IF key \in ObjectPrototypeKeys THEN [kind |-> "inherited"]
    ELSE [kind |-> "undefined"]

RECURSIVE join(_, _)
join(args, sep) ==
    IF Len(args) = 0 THEN ""
    ELSE IF Len(args) = 1 THEN args[1]
    ELSE args[1] \o sep \o join(Tail(args), sep)

cmdStrOf(c) == c.cmd \o " " \o join(c.args, " ")

UnknownCommandMessage(key) == "Unknown command: " \o key

----------------------------------------------------------------------------
(* Process output and Buffer.toString() *)

\* The k-th Buffer read from a stream.  The process writes ASCII "abc.." on
\* stdout and the two-byte UTF-8 character U+00E9 repeatedly on stderr; the
\* pipe delivers one byte per read.
Output(s, k) ==
    IF s = "stdout" THEN <<96 + k>>
    ELSE IF k % 2 = 1 THEN <<195>> ELSE <<169>>

ReplacementChar == 65533

\* d.toString(): UTF-8 decoding of one Buffer into code points; a byte that
\* is not part of a complete sequence inside this Buffer becomes U+FFFD.
RECURSIVE toString(_)
toString(d) ==
    IF Len(d) = 0 THEN <<>>
    ELSE IF d[1] < 128 THEN <<d[1]>> \o toString(Tail(d))
    ELSE IF d[1] >= 194 /\ d[1] <= 223 /\ Len(d) >= 2 /\ d[2] >= 128 /\ d[2] <= 191
         THEN <<(d[1] - 192) * 64 + (d[2] - 128)>> \o toString(Tail(Tail(d)))
    ELSE <<ReplacementChar>> \o toString(Tail(d))

----------------------------------------------------------------------------
(* The store: tables jobs and job_logs (database.sql) *)

JobRow(id, type, command, status) ==
    [id |-> id, type |-> type, command |-> command, status |-> status,
     started_at |-> now, finished_at |-> NULL]

\* INSERT INTO jobs: primary key and CHECK constraints of the schema.
InsertJobOk(id, type, status) ==
    /\ \A j \in jobs : j.id # id
    /\ type \in {"local", "ssh"}
    /\ status \in {"running", "success", "failed"}

\* UPDATE jobs SET status = $1 WHERE id = $2
UpdateJob_statusOnly(status, id) ==
    {IF j.id = id THEN [j EXCEPT !.status = status] ELSE j : j \in jobs}

\* UPDATE jobs SET status = $1, finished_at = NOW()
UpdateJob_allRows(status, id) ==
    {[j EXCEPT !.status = status, !.finished_at = now] : j \in jobs}

\* UPDATE jobs SET status = $1, finished_at = NOW() WHERE id = $2
UpdateJob(status, id) ==
    {IF j.id = id THEN [j EXCEPT !.status = status, !.finished_at = now] ELSE j
        : j \in jobs}

LogRow(id, stream, data) ==
    [job_id |-> id, timestamp |-> now, stream |-> stream, data |-> data]

\* INSERT INTO job_logs: foreign key job_id -> jobs(id) and CHECK on stream.
InsertLogOk(id, stream) ==
    /\ \E j \in jobs : j.id = id
    /\ stream \in Streams

\* ORDER BY started_at (ascending)
RECURSIVE OrderByStartedAt_asc(_)
OrderByStartedAt_asc(rows) ==
    IF rows = {} THEN <<>>
    ELSE LET first == CHOOSE j \in rows : \A o \in rows : j.started_at <= o.started_at
         IN <<first>> \o OrderByStartedAt_asc(rows \ {first})

\* ORDER BY started_at DESC
RECURSIVE OrderByStartedAtDesc(_)
OrderByStartedAtDesc(rows) ==
    IF rows = {} THEN <<>>
    ELSE LET first == CHOOSE j \in rows : \A o \in rows : j.started_at >= o.started_at
         IN <<first>> \o OrderByStartedAtDesc(rows \ {first})

\* LIMIT n
Limit(seq, n) == SubSeq(seq, 1, IF Len(seq) < n THEN Len(seq) ELSE n)

HistoryLimit == 10

\* SELECT id, type, command, status, started_at, finished_at FROM jobs
\* ORDER BY started_at DESC LIMIT 10
SelectJobs == Limit(OrderByStartedAtDesc(jobs), HistoryLimit)

----------------------------------------------------------------------------
(* socket.emit on the connection of the request *)

\* A packet written to a socket that is no longer open is discarded.
EmitOn(evs, c, e) == IF connected[c] THEN [evs EXCEPT ![c] = Append(@, e)] ELSE evs

\* io.emit: the event goes to every open socket.
Emit_broadcast(c, e) ==
    [d \in Conns |-> IF connected[d] THEN Append(events[d], e) ELSE events[d]]

Emit(c, e) == EmitOn(events, c, e)

\* const status = code ? 'failed' : 'success'
statusOf_truthy(code) == IF code > 0 THEN "failed" ELSE "success"

statusOf(code) == IF code = 0 THEN "success" ELSE "failed"

----------------------------------------------------------------------------
(* Environment *)

\* Connections are numbered in the order of their first request.
UsedConns == {req[r].conn : r \in {q \in Reqs : req[q].pc # "idle"}}
NextConn == Cardinality(UsedConns) + 1

\* A query succeeds (TRUE) or, while the fault budget lasts, fails (FALSE).
QueryOutcomes == IF faults < MaxFaults THEN {TRUE, FALSE} ELSE {TRUE}

RECURSIVE SumLen(_)
SumLen(S) ==
    IF S = {} THEN 0
    ELSE LET x == CHOOSE y \in S : TRUE IN Len(chunks[x[1]][x[2]]) + SumLen(S \ {x})

ChunksRead == SumLen(Reqs \X Streams)

HttpIdle == [pc |-> "idle", limit |-> NULL, status |-> 0, body |-> <<>>, seen |-> {}]

----------------------------------------------------------------------------
\* The state after start-up, with f failures already counted and the job
\* rows left in the store by earlier runs of the server.
Start(f, rows) ==
    /\ serverUp = TRUE
    /\ uuids = Cardinality(rows)
    /\ req = [r \in Reqs |-> [pc |-> "idle", conn |-> 0, key |-> "", id |-> 0]]
    /\ proc = [r \in Reqs |-> "none"]
    /\ chunks = [r \in Reqs |-> [s \in Streams |-> <<>>]]
    /\ fin = [r \in Reqs |-> [st |-> "none", status |-> "", code |-> NULL]]
    /\ jobs = rows
    /\ job_logs = <<>>
    /\ now = 2 * Cardinality(rows) + 1
    /\ events = [c \in Conns |-> <<>>]
    /\ faults = f
    /\ connected = [c \in Conns |-> TRUE]
    /\ http = HttpIdle

Init == Start(0, {})

\* The environment produces no failure: the fault budget is spent.
InitNoFaults == Start(MaxFaults, {})

----------------------------------------------------------------------------
(* socket.on('execute-command'): the synchronous part up to the first await *)

ExecuteCommand(r, conn, key) ==
    /\ serverUp
    /\ req[r].pc = "idle"
    /\ \A q \in Reqs : q < r => req[q].pc # "idle"
    /\ conn <= NextConn
    /\ connected[conn]
    /\ LET l == Lookup(key) IN
        CASE l.kind = "undefined" ->
                /\ events' = Emit(conn, [ev |-> "error",
                                         message |-> UnknownCommandMessage(key)])
                /\ req' = [req EXCEPT ![r] = [pc |-> "done", conn |-> conn,
                                              key |-> key, id |-> 0]]
                /\ UNCHANGED <<serverUp, uuids>>
          [] l.kind = "inherited" ->
                \* c.args is undefined: c.args.join throws a TypeError outside
                \* the try block; the rejection of the async handler is
                \* unhandled and ends the process.
                /\ req' = [req EXCEPT ![r] = [pc |-> "threw", conn |-> conn,
                                              key |-> key, id |-> uuids + 1]]
                /\ uuids' = uuids + 1
                /\ serverUp' = FALSE
                /\ UNCHANGED events
          [] l.kind = "spec" ->
                /\ req' = [req EXCEPT ![r] = [pc |-> "insert_sent", conn |-> conn,
                                              key |-> key, id |-> uuids + 1]]
                /\ uuids' = uuids + 1
                /\ UNCHANGED <<serverUp, events>>
    /\ UNCHANGED <<proc, chunks, fin, jobs, job_logs, now, faults,
                 connected, http>>

\* The database executes INSERT INTO jobs, or the query fails.
DbInsertJob(r) ==
    /\ req[r].pc = "insert_sent"
    /\ LET c == COMMANDS[req[r].key] IN
       \E ok \in QueryOutcomes :
         IF ok /\ InsertJobOk(req[r].id, c.type, "running")
         THEN /\ jobs' = jobs \cup {JobRow(req[r].id, c.type, cmdStrOf(c), "running")}
              /\ now' = now + 1
              /\ req' = [req EXCEPT ![r].pc = "insert_ok"]
              /\ UNCHANGED faults
         ELSE /\ req' = [req EXCEPT ![r].pc = "insert_err"]
              /\ faults' = faults + 1
              /\ UNCHANGED <<jobs, now>>
    /\ UNCHANGED <<serverUp, uuids, proc, chunks, fin, job_logs, events,
                 connected, http>>

\* The handler without `await`: it goes on to emit and spawn whatever the
\* outcome of the insert.
JobInserted_noAwait(r) ==
    /\ serverUp
    /\ req[r].pc \in {"insert_ok", "insert_err"}
    /\ events' = Emit(req[r].conn, [ev |-> "job-started", jobId |-> req[r].id,
                                    command |-> cmdStrOf(COMMANDS[req[r].key])])
    /\ req' = [req EXCEPT ![r].pc = "done"]
    /\ proc' = [proc EXCEPT ![r] = "running"]
    /\ UNCHANGED <<serverUp, faults, uuids, chunks, fin, jobs, job_logs, now,
                 connected, http>>

\* The handler resumes after `await db.query(INSERT INTO jobs ...)`.
JobInserted(r) ==
    /\ serverUp
    /\ req[r].pc \in {"insert_ok", "insert_err"}
    /\ LET c == COMMANDS[req[r].key]
           id == req[r].id
           conn == req[r].conn
           started == Emit(conn, [ev |-> "job-started", jobId |-> id,
                                  command |-> cmdStrOf(c)])
       IN
       IF req[r].pc = "insert_err"
       THEN /\ events' = Emit(conn, [ev |-> "error", message |-> "query failed"])
            /\ req' = [req EXCEPT ![r].pc = "done"]
            /\ UNCHANGED <<serverUp, proc, faults>>
       ELSE \E outcome \in SpawnOutcomes :
            /\ outcome # "ok" => faults < MaxFaults
            /\ faults' = IF outcome = "ok" THEN faults ELSE faults + 1
            /\ req' = [req EXCEPT ![r].pc = "done"]
            /\ proc' = [proc EXCEPT ![r] = IF outcome = "ok" THEN "running" ELSE "failed"]
            \* spawn throws synchronously: the catch block emits error
            /\ events' = IF outcome = "throw"
                          THEN EmitOn(started, conn,
                                      [ev |-> "error", message |-> "spawn failed"])
                          ELSE started
            \* the child emits 'error' on the next tick; no listener is
            \* registered for it, so the exception is uncaught.
            /\ serverUp' = (outcome # "error_event")
    /\ UNCHANGED <<uuids, chunks, fin, jobs, job_logs, now,
                 connected, http>>

----------------------------------------------------------------------------
(* p.stdout.on('data') / p.stderr.on('data') *)

\* The callback emits job-log first and hands the INSERT to the pool after it.
StreamData_emitFirst(r, s) ==
    /\ serverUp
    /\ proc[r] = "running"
    /\ ChunksRead < MaxChunks
    /\ LET d == Output(s, Len(chunks[r][s]) + 1) IN
       /\ chunks' = [chunks EXCEPT ![r][s] =
                       Append(@, [chunk |-> toString(d), st |-> "sent"])]
       /\ events' = Emit(req[r].conn, [ev |-> "job-log", jobId |-> req[r].id,
                                       stream |-> s, data |-> toString(d)])
    /\ UNCHANGED <<serverUp, uuids, req, proc, fin, jobs, job_logs, now, faults,
                   connected, http>>

\* The process writes, the server reads the next Buffer d of stream s and the
\* data callback runs up to its await: chunk = d.toString(), INSERT handed to
\* the pool.
StreamData(r, s) ==
    /\ serverUp
    /\ proc[r] = "running"
    /\ ChunksRead < MaxChunks
    /\ LET d == Output(s, Len(chunks[r][s]) + 1) IN
       chunks' = [chunks EXCEPT ![r][s] =
                    Append(@, [chunk |-> toString(d), st |-> "sent"])]
    /\ UNCHANGED <<serverUp, uuids, req, proc, fin, jobs, job_logs, now, events, faults,
                 connected, http>>

\* The id is kept in one variable of the module instead of one per request:
\* the row gets the id of the latest request.
DbInsertLog_latestId(r, s, k) ==
    /\ k \in DOMAIN chunks[r][s]
    /\ chunks[r][s][k].st = "sent"
    /\ job_logs' = Append(job_logs, LogRow(uuids, s, chunks[r][s][k].chunk))
    /\ now' = now + 1
    /\ chunks' = [chunks EXCEPT ![r][s][k].st = "ok"]
    /\ UNCHANGED <<serverUp, uuids, req, proc, fin, jobs, events, faults,
                   connected, http>>

\* The database executes INSERT INTO job_logs of the k-th chunk, or the query fails.
DbInsertLog(r, s, k) ==
    /\ k \in DOMAIN chunks[r][s]
    /\ chunks[r][s][k].st = "sent"
    /\ \E ok \in QueryOutcomes :
         IF ok /\ InsertLogOk(req[r].id, s)
         THEN /\ job_logs' = Append(job_logs, LogRow(req[r].id, s, chunks[r][s][k].chunk))
              /\ now' = now + 1
              /\ chunks' = [chunks EXCEPT ![r][s][k].st = "ok"]
              /\ UNCHANGED faults
         ELSE /\ chunks' = [chunks EXCEPT ![r][s][k].st = "err"]
              /\ faults' = faults + 1
              /\ UNCHANGED <<job_logs, now>>
    /\ UNCHANGED <<serverUp, uuids, req, proc, fin, jobs, events,
                 connected, http>>

\* The data callback resumes after its await: emit job-log; a rejected query
\* makes the callback's promise reject with no handler, which ends the process.
LogWritten(r, s, k) ==
    /\ serverUp
    /\ k \in DOMAIN chunks[r][s]
    /\ chunks[r][s][k].st \in {"ok", "err"}
    /\ IF chunks[r][s][k].st = "ok"
       THEN /\ events' = Emit(req[r].conn, [ev |-> "job-log", jobId |-> req[r].id,
                                            stream |-> s, data |-> chunks[r][s][k].chunk])
            /\ chunks' = [chunks EXCEPT ![r][s][k].st = "emitted"]
            /\ UNCHANGED serverUp
       ELSE /\ chunks' = [chunks EXCEPT ![r][s][k].st = "threw"]
            /\ serverUp' = FALSE
            /\ UNCHANGED events
    /\ UNCHANGED <<uuids, req, proc, fin, jobs, job_logs, now, faults,
                 connected, http>>

----------------------------------------------------------------------------
(* p.on('close') *)

\* The callback is registered for 'exit' as well as 'close' and runs again.
ProcClose_twice(r, code) ==
    /\ serverUp
    /\ proc[r] \in {"running", "closed"}
    /\ fin[r].st \in {"none", "emitted"}
    /\ proc' = [proc EXCEPT ![r] = "closed"]
    /\ fin' = [fin EXCEPT ![r] = [st |-> "sent", status |-> statusOf(code), code |-> code]]
    /\ UNCHANGED <<serverUp, uuids, req, chunks, jobs, job_logs, now, events, faults,
                 connected, http>>

\* The close callback emits job-finished before its await.
ProcClose_emitFirst(r, code) ==
    /\ serverUp
    /\ proc[r] = "running"
    /\ proc' = [proc EXCEPT ![r] = "closed"]
    /\ fin' = [fin EXCEPT ![r] = [st |-> "sent", status |-> statusOf(code), code |-> code]]
    /\ events' = Emit(req[r].conn, [ev |-> "job-finished", jobId |-> req[r].id,
                                    status |-> statusOf(code), exitCode |-> code])
    /\ UNCHANGED <<serverUp, uuids, req, chunks, jobs, job_logs, now, faults,
                 connected, http>>

\* The process has ended and both streams are closed (every data callback has
\* been called): the close callback runs up to its await.
ProcClose(r, code) ==
    /\ serverUp
    /\ proc[r] = "running"
    /\ proc' = [proc EXCEPT ![r] = "closed"]
    /\ fin' = [fin EXCEPT ![r] = [st |-> "sent", status |-> statusOf(code), code |-> code]]
    /\ UNCHANGED <<serverUp, uuids, req, chunks, jobs, job_logs, now, events, faults,
                 connected, http>>

\* The database executes UPDATE jobs, or the query fails.
DbUpdateJob(r) ==
    /\ fin[r].st = "sent"
    /\ \E ok \in QueryOutcomes :
         IF ok
         THEN /\ jobs' = UpdateJob(fin[r].status, req[r].id)
              /\ now' = now + 1
              /\ fin' = [fin EXCEPT ![r].st = "ok"]
              /\ UNCHANGED faults
         ELSE /\ fin' = [fin EXCEPT ![r].st = "err"]
              /\ faults' = faults + 1
              /\ UNCHANGED <<jobs, now>>
    /\ UNCHANGED <<serverUp, uuids, req, proc, chunks, job_logs, events,
                 connected, http>>

\* The close callback resumes after its await: emit job-finished; a rejected
\* query is an unhandled rejection.
Finalized(r) ==
    /\ serverUp
    /\ fin[r].st \in {"ok", "err"}
    /\ IF fin[r].st = "ok"
       THEN /\ events' = Emit(req[r].conn, [ev |-> "job-finished", jobId |-> req[r].id,
                                            status |-> fin[r].status,
                                            exitCode |-> fin[r].code])
            /\ fin' = [fin EXCEPT ![r].st = "emitted"]
            /\ UNCHANGED serverUp
       ELSE /\ fin' = [fin EXCEPT ![r].st = "threw"]
            /\ serverUp' = FALSE
            /\ UNCHANGED events
    /\ UNCHANGED <<uuids, req, proc, chunks, jobs, job_logs, now, faults,
                 connected, http>>

----------------------------------------------------------------------------
(* The client of connection c goes away; a client that comes back gets a new
   socket.  No 'disconnect' listener is registered, so the server does nothing. *)

\* socket.on('disconnect', () => p.kill()): the job ends with its client.
Disconnect_kills(c) ==
    /\ serverUp
    /\ c \in UsedConns
    /\ connected[c]
    /\ connected' = [connected EXCEPT ![c] = FALSE]
    /\ proc' = [r \in Reqs |-> IF req[r].conn = c /\ proc[r] = "running"
                               THEN "failed" ELSE proc[r]]
    /\ UNCHANGED <<serverUp, uuids, req, chunks, fin, jobs, job_logs, now,
                   events, faults, http>>

Disconnect(c) ==
    /\ serverUp
    /\ c \in UsedConns
    /\ connected[c]
    /\ connected' = [connected EXCEPT ![c] = FALSE]
    /\ UNCHANGED <<serverUp, uuids, req, proc, chunks, fin, jobs, job_logs, now,
                   events, faults, http>>

----------------------------------------------------------------------------
Next ==
    \/ \E r \in 1..MaxReqs, conn \in Conns, key \in Keys : ExecuteCommand(r, conn, key)
    \/ \E r \in Reqs : DbInsertJob(r)
    \/ \E r \in Reqs : JobInserted(r)
    \/ \E r \in Reqs, s \in Streams : StreamData(r, s)
    \/ \E r \in Reqs, s \in Streams, k \in 1..MaxChunks : DbInsertLog(r, s, k)
    \/ \E r \in Reqs, s \in Streams, k \in 1..MaxChunks : LogWritten(r, s, k)
    \/ \E r \in Reqs, code \in ExitCodes : ProcClose(r, code)
    \/ \E r \in Reqs : DbUpdateJob(r)
    \/ \E r \in Reqs : Finalized(r)

Spec == Init /\ [][Next]_vars

----------------------------------------------------------------------------
(* Observations used by the properties *)

Valid(r) == req[r].pc # "idle" /\ req[r].key \in DOMAIN COMMANDS

\* The events of job id sent on connection c, in emission order.
JobEvents(c, id) == SelectSeq(events[c], LAMBDA e : e.ev # "error" /\ e.jobId = id)

Count(seq, ev) == Len(SelectSeq(seq, LAMBDA e : e.ev = ev))

\* The job row of request r, as a set of at most one row.
RowOf(r) == {j \in jobs : j.id = req[r].id}

\* Every callback of request r has run to its end and no query is in flight.
Quiescent(r) ==
    /\ req[r].pc \in {"done", "threw"}
    /\ proc[r] # "running"
    /\ fin[r].st \in {"none", "emitted", "threw"}
    /\ \A s \in Streams : \A k \in DOMAIN chunks[r][s] :
          chunks[r][s][k].st \in {"emitted", "threw"}

\* The chunks of stream s in the order in which they were read.
ReadData(r, s) == [k \in DOMAIN chunks[r][s] |-> chunks[r][s][k].chunk]

\* SELECT data FROM job_logs WHERE job_id = id AND stream = s ORDER BY timestamp
RECURSIVE SortByTimestamp(_)
SortByTimestamp(rows) ==
    IF Len(rows) <= 1 THEN rows
    ELSE LET m == CHOOSE i \in DOMAIN rows :
                    \A k \in DOMAIN rows :
                        \/ rows[i].timestamp < rows[k].timestamp
                        \/ (rows[i].timestamp = rows[k].timestamp /\ i <= k)
         IN <<rows[m]>> \o
            SortByTimestamp([k \in 1..(Len(rows) - 1) |->
                                IF k < m THEN rows[k] ELSE rows[k + 1]])

ReadBack(id, s) ==
    LET rows == SortByTimestamp(SelectSeq(job_logs,
                    LAMBDA l : l.job_id = id /\ l.stream = s))
    IN [k \in DOMAIN rows |-> rows[k].data]

\* The data of the job-log events of (id, s) in emission order.
EmittedData(c, id, s) ==
    LET es == SelectSeq(events[c],
                LAMBDA e : e.ev = "job-log" /\ e.jobId = id /\ e.stream = s)
    IN [k \in DOMAIN es |-> es[k].data]

RECURSIVE IsSubseq(_, _)
IsSubseq(a, b) ==
    IF Len(a) = 0 THEN TRUE
    ELSE IF Len(b) = 0 THEN FALSE
    ELSE IF a[1] = b[1] THEN IsSubseq(Tail(a), Tail(b))
    ELSE IsSubseq(a, Tail(b))

RECURSIVE Concat(_)
Concat(ss) == IF Len(ss) = 0 THEN <<>> ELSE ss[1] \o Concat(Tail(ss))

\* All bytes read from stream s of request r, as one Buffer.
BytesRead(r, s) == Concat([k \in DOMAIN chunks[r][s] |-> Output(s, k)])

----------------------------------------------------------------------------
(* app.get('/api/jobs') *)

\* The ids of the jobs whose job-finished event has been sent to a client.
FinishedSeen ==
    UNION {{events[c][i].jobId :
                i \in {k \in DOMAIN events[c] : events[c][k].ev = "job-finished"}}
           : c \in Conns}

\* The handler runs up to its await; the limit parameter of the request is
\* never read.  The request keeps, for observation only, the jobs its
\* client may have seen finish before making it.
GetJobs(limit) ==
    /\ serverUp
    /\ http.pc \in {"idle", "done"}
    /\ http' = [pc |-> "sent", limit |-> limit, status |-> 0, body |-> <<>>,
                seen |-> FinishedSeen]
    /\ UNCHANGED <<serverUp, uuids, req, proc, chunks, fin, jobs, job_logs, now,
                   events, faults, connected>>

\* The query of a handler that passes the requested limit on to the store.
DbSelectJobs_honoursLimit ==
    /\ http.pc = "sent"
    /\ http' = [http EXCEPT !.pc = "ok",
                            !.body = Limit(OrderByStartedAtDesc(jobs),
                                           IF http.limit = NULL THEN HistoryLimit
                                           ELSE http.limit)]
    /\ UNCHANGED <<serverUp, uuids, req, proc, chunks, fin, jobs, job_logs, now,
                   events, faults, connected>>

\* The database executes the SELECT, or the query fails.
DbSelectJobs ==
    /\ http.pc = "sent"
    /\ \E ok \in QueryOutcomes :
         IF ok
         THEN /\ http' = [http EXCEPT !.pc = "ok", !.body = SelectJobs]
              /\ UNCHANGED faults
         ELSE /\ http' = [http EXCEPT !.pc = "err"]
              /\ faults' = faults + 1
    /\ UNCHANGED <<serverUp, uuids, req, proc, chunks, fin, jobs, job_logs, now,
                   events, connected>>

\* The handler resumes: res.json(result.rows), or status 500 from the catch.
JobsResponded ==
    /\ serverUp
    /\ http.pc \in {"ok", "err"}
    /\ http' = [http EXCEPT !.pc = "done",
                            !.status = IF http.pc = "ok" THEN 200 ELSE 500,
                            !.body = IF http.pc = "ok" THEN http.body ELSE <<>>]
    /\ UNCHANGED <<serverUp, uuids, req, proc, chunks, fin, jobs, job_logs, now,
                   events, faults, connected>>

\* The rows k earlier requests left behind: ids 1..k in request order, the
\* INSERTs executed in an order rotated by shift, odd jobs finished.
StoredJobs(k, shift) ==
    {[id |-> i, type |-> COMMANDS["vm-status"].type,
      command |-> cmdStrOf(COMMANDS["vm-status"]),
      status |-> IF i % 2 = 1 THEN "success" ELSE "running",
      started_at |-> ((i - 1 + shift) % k) + 1,
      finished_at |-> IF i % 2 = 1 THEN k + ((i - 1 + shift) % k) + 1 ELSE NULL]
        : i \in 1..k}

InitHistory ==
    \E k \in 0..MaxJobs : \E shift \in 0..(IF k = 0 THEN 0 ELSE k - 1) :
        Start(0, StoredJobs(k, shift))

NextHistory ==
    \/ \E limit \in Limits : GetJobs(limit)
    \/ DbSelectJobs
    \/ JobsResponded

SpecHistory == InitHistory /\ [][NextHistory]_vars

----------------------------------------------------------------------------
(* Further specifications *)

\* Requests whose handler or callbacks still have steps to take.
InFlight == Cardinality({r \in Reqs : req[r].pc # "idle" /\ ~Quiescent(r)})

\* The steps of requests R that name a registered key and whose processes
\* write to stdout only and exit with code 0.
PlainStep(R) ==
    \/ \E r \in R, conn \in Conns :
          InFlight < MaxInFlight /\ ExecuteCommand(r, conn, "vm-status")
    \/ \E r \in R : DbInsertJob(r)
    \/ \E r \in R : JobInserted(r)
    \/ \E r \in R : StreamData(r, "stdout")
    \/ \E r \in R, k \in 1..MaxChunks : DbInsertLog(r, "stdout", k)
    \/ \E r \in R, k \in 1..MaxChunks : LogWritten(r, "stdout", k)
    \/ \E r \in R : ProcClose(r, 0)
    \/ \E r \in R : DbUpdateJob(r)
    \/ \E r \in R : Finalized(r)

\* Clients that may go away while their job runs; no failures.
NextDisconnect ==
    \/ PlainStep(1..MaxReqs)
    \/ \E c \in Conns : Disconnect(c)

SpecDisconnect == InitNoFaults /\ [][NextDisconnect]_vars

\* Jobs running side by side; no failures.
NextPair == PlainStep(1..PairReqs)

SpecPair == InitNoFaults /\ [][NextPair]_vars

\* The client's job-finished listener: it fetches the history again.
RefreshOnFinished == FinishedSeen # {} /\ GetJobs(NULL)

\* Jobs of either outcome, store failures, and clients that refresh their
\* history when a job has finished.
NextRefresh ==
    \/ PlainStep(1..MaxReqs)
    \/ \E r \in 1..MaxReqs : ProcClose(r, 1)
    \/ RefreshOnFinished
    \/ DbSelectJobs
    \/ JobsResponded

SpecRefresh == Init /\ [][NextRefresh]_vars

----------------------------------------------------------------------------
(* Properties *)

\* C1: for a request with a registered key the connection gets at most one
\* job-started and at most one job-finished event of the job, nothing of the
\* job follows job-finished, and once every callback has run without any
\* failure, on a connection that is still open, there is exactly one of each.
C1_StartedOnceFinishedLast ==
    \A r \in Reqs : Valid(r) =>
        LET es == JobEvents(req[r].conn, req[r].id) IN
        /\ Count(es, "job-started") <= 1
        /\ Count(es, "job-finished") <= 1
        /\ \A i \in DOMAIN es : es[i].ev = "job-finished" => i = Len(es)
        /\ (Quiescent(r) /\ faults = 0 /\ connected[req[r].conn]) =>
              Count(es, "job-started") = 1 /\ Count(es, "job-finished") = 1

\* C2: a job is finalized (status update executed by the store, or
\* job-finished emitted) only when none of its chunks still waits to be
\* persisted or emitted.
C2_FinalizeAfterAllLogs ==
    \A r \in Reqs : fin[r].st \in {"ok", "emitted"} =>
        \A s \in Streams : \A k \in DOMAIN chunks[r][s] :
            chunks[r][s][k].st \notin {"sent", "ok"}

\* C3: within one (job, stream) pair the persisted log rows, in timestamp
\* order, and the emitted job-log events follow the order in which the
\* chunks were read.
C3_PerStreamOrder ==
    \A r \in Reqs : \A s \in Streams : Valid(r) =>
        /\ IsSubseq(ReadBack(req[r].id, s), ReadData(r, s))
        /\ IsSubseq(EmittedData(req[r].conn, req[r].id, s), ReadData(r, s))

\* C4: when a job has finished, every callback has run and nothing failed,
\* the persisted rows of each stream, concatenated in timestamp order, are
\* the text of the bytes the process wrote on that stream.
C4_LogsReadBackAsWritten ==
    \A r \in Reqs : \A s \in Streams :
        (/\ Valid(r) /\ Quiescent(r) /\ faults = 0
         /\ \E j \in RowOf(r) : j.status # "running")
        => Concat(ReadBack(req[r].id, s)) = toString(BytesRead(r, s))

\* C5: a request whose key is not in the registry appends one error event
\* "Unknown command: <key>" on its connection and changes nothing else.
C5_UnknownKeyStep ==
    [][\A r \in Reqs :
          (req[r].pc = "idle" /\ req'[r].pc # "idle"
           /\ req'[r].key \notin DOMAIN COMMANDS)
          => /\ events' = Emit(req'[r].conn,
                               [ev |-> "error",
                                message |-> "Unknown command: " \o req'[r].key])
             /\ UNCHANGED <<serverUp, proc, chunks, fin, jobs, job_logs>>]_vars

\* C6: the persisted status of a finished job and the status field of its
\* job-finished event are success exactly when the exit code of the process
\* is 0; every other code, and no code at all, gives failed.
C6_StatusFromExitCode ==
    \A r \in Reqs :
        /\ \A j \in RowOf(r) : j.status # "running" =>
              /\ fin[r].st # "none"
              /\ j.status \in {"success", "failed"}
              /\ (j.status = "success") <=> (fin[r].code = 0)
        /\ \A c \in Conns : \A i \in DOMAIN events[c] :
              (events[c][i].ev = "job-finished" /\ events[c][i].jobId = req[r].id) =>
                  /\ events[c][i].exitCode = fin[r].code
                  /\ events[c][i].status \in {"success", "failed"}
                  /\ (events[c][i].status = "success") <=> (fin[r].code = 0)

\* A process ended without an exit code and its job was finalized as failed.
C6_Witness ==
    \E r \in Reqs :
        /\ fin[r].st = "emitted" /\ fin[r].code = NULL
        /\ \E j \in RowOf(r) : j.status = "failed"
        /\ \E i \in DOMAIN events[req[r].conn] :
              /\ events[req[r].conn][i].ev = "job-finished"
              /\ events[req[r].conn][i].status = "failed"

\* C7: in every job row finished_at is null exactly when status is running.
C7_FinishedAtIffTerminal ==
    \A j \in jobs : (j.finished_at = NULL) <=> (j.status = "running")

\* A finalized job row.
C7_Witness ==
    \E j \in jobs : j.status \in {"success", "failed"} /\ j.finished_at # NULL

C9_SpawnFailureMarksFailed ==
    \A r \in Reqs : (proc[r] = "failed" /\ Quiescent(r)) =>
        \A j \in RowOf(r) : j.status = "failed"

\* C10: on an open connection every data callback that has ended, also one
\* whose store write failed, has emitted its job-log event exactly once.
C10_LogEventDespiteWriteFailure ==
    \A r \in Reqs : \A s \in Streams : (Valid(r) /\ connected[req[r].conn]) =>
        Len(EmittedData(req[r].conn, req[r].id, s))
            = Cardinality({k \in DOMAIN chunks[r][s] :
                              chunks[r][s][k].st \in {"emitted", "threw"}})

\* The rows of job_logs that belong to stream s of job id.
LogRows(id, s) == SelectSeq(job_logs, LAMBDA l : l.job_id = id /\ l.stream = s)

\* C11: when the client of a running job goes away, that step changes
\* nothing but the socket (the process keeps running, no query is
\* cancelled); nothing is ever appended to a closed connection; and for a
\* job of a closed connection every chunk read has its row and the job row
\* is success or failed once all callbacks of the ended process have run.
C11_PersistenceOutlivesConnection ==
    /\ [][connected' # connected =>
            UNCHANGED <<serverUp, uuids, req, proc, chunks, fin, jobs, job_logs,
                        now, events, faults, http>>]_vars
    /\ [][\A c \in Conns : ~connected[c] => events'[c] = events[c]]_vars
    /\ [](\A r \in Reqs :
            (Valid(r) /\ ~connected[req[r].conn] /\ Quiescent(r)
             /\ proc[r] = "closed") =>
                /\ \A j \in RowOf(r) : j.status \in {"success", "failed"}
                /\ RowOf(r) # {}
                /\ \A s \in Streams :
                      Len(LogRows(req[r].id, s)) = Len(chunks[r][s]))

\* The client left after job-started: the chunk was persisted and the job
\* finalized, and neither job-log nor job-finished reached the connection.
C11_Witness ==
    \E r \in Reqs :
        /\ Valid(r) /\ ~connected[req[r].conn] /\ Quiescent(r)
        /\ Len(LogRows(req[r].id, "stdout")) >= 1
        /\ \E j \in RowOf(r) : j.status = "success"
        /\ LET es == JobEvents(req[r].conn, req[r].id) IN
              /\ Count(es, "job-started") = 1
              /\ Count(es, "job-log") = 0
              /\ Count(es, "job-finished") = 0

\* C12: no error of a single job (failed store write, failed launch, abnormal
\* termination, unknown key) ends the server process; stated for the runs in
\* which every handler got past the registry lookup and the command string.
C12_ServerNeverCrashes == (\A r \in Reqs : req[r].pc # "threw") => serverUp

Min(a, b) == IF a < b THEN a ELSE b

\* The response is a 200 whose body holds n rows of the table, newest first,
\* none twice, and no row left out is newer than a row returned.
NewestFirst(n) ==
    /\ http.status = 200
    /\ Len(http.body) = n
    /\ \A i \in DOMAIN http.body : http.body[i] \in jobs
    /\ \A i, k \in DOMAIN http.body :
          i < k => /\ http.body[i].started_at >= http.body[k].started_at
                   /\ http.body[i].id # http.body[k].id
    /\ \A j \in jobs : (\A i \in DOMAIN http.body : http.body[i] # j) =>
          \A i \in DOMAIN http.body : j.started_at <= http.body[i].started_at

\* C13: a history query without limit parameter that the store answered
\* returns min(k, 10) of the k jobs, the ones started last, newest first.
C13_TenNewestFirst ==
    (http.pc = "done" /\ http.limit = NULL /\ http.status # 500) =>
        NewestFirst(Min(Cardinality(jobs), 10))

\* Fifteen jobs in the store, ten returned.
C13_Witness ==
    /\ http.pc = "done" /\ http.limit = NULL /\ http.status = 200
    /\ Cardinality(jobs) = 15
    /\ Len(http.body) = 10
    /\ http.body[1].started_at = 15
    /\ http.body[10].started_at = 6

\* C14 as claimed: a history query with limit N returns min(N, k) rows.
C14_LimitHonoured ==
    (http.pc = "done" /\ http.limit # NULL /\ http.status # 500) =>
        Len(http.body) = Min(http.limit, Cardinality(jobs))

\* C14 as amended: whatever limit the request carries, the answer is the
\* min(k, 10) newest jobs.
C14_LimitAlwaysTen ==
    (http.pc = "done" /\ http.limit # NULL /\ http.status # 500) =>
        NewestFirst(Min(Cardinality(jobs), 10))

\* Eleven or more jobs in the store: a request for 3 rows is answered with 10.
C14_Witness ==
    /\ http.pc = "done" /\ http.limit = 3 /\ http.status = 200
    /\ Len(http.body) = 10

\* The data callbacks of stream s of request r that are in one of the states st.
ChunksIn(r, s, st) == {k \in DOMAIN chunks[r][s] : chunks[r][s][k].st \in st}

\* C15: requests with registered keys have distinct ids and distinct job
\* rows; every log row carries the id of a job, and a job has exactly as
\* many log rows and job-log events per stream as chunks of its own process
\* were persisted and emitted.
C15_LogOwnership ==
    /\ \A r1, r2 \in Reqs : (r1 # r2 /\ Valid(r1) /\ Valid(r2)) => req[r1].id # req[r2].id
    /\ \A j1, j2 \in jobs : j1.id = j2.id => j1 = j2
    /\ \A i \in DOMAIN job_logs : \E r \in Reqs : Valid(r) /\ req[r].id = job_logs[i].job_id
    /\ \A r \in Reqs : \A s \in Streams : Valid(r) =>
          /\ Len(LogRows(req[r].id, s)) = Cardinality(ChunksIn(r, s, {"ok", "emitted"}))
          /\ Len(EmittedData(req[r].conn, req[r].id, s))
                = Cardinality(ChunksIn(r, s, {"emitted"}))

\* Two jobs are running, and each has persisted a chunk after the other one
\* was created.
C15_Witness ==
    \E r1, r2 \in Reqs :
        /\ r1 # r2 /\ Valid(r1) /\ Valid(r2)
        /\ \A r \in {r1, r2} : \E j \in RowOf(r) : j.status = "running"
        /\ \E j1 \in RowOf(r1), j2 \in RowOf(r2) : \E i1, i2 \in DOMAIN job_logs :
              /\ job_logs[i1].job_id = j1.id /\ job_logs[i1].timestamp > j2.started_at
              /\ job_logs[i2].job_id = j2.id /\ job_logs[i2].timestamp > j1.started_at
        /\ Len(EmittedData(req[r1].conn, req[r1].id, "stdout")) = 1
        /\ Len(EmittedData(req[r2].conn, req[r2].id, "stdout")) = 1

\* C16: every job-started, job-log and job-finished event on a connection
\* belongs to a job that a request of that same connection created.
C16_EventsOnlyToRequester ==
    \A c \in Conns : \A i \in DOMAIN events[c] :
        events[c][i].ev # "error" =>
            \E r \in Reqs : /\ Valid(r)
                            /\ req[r].id = events[c][i].jobId
                            /\ req[r].conn = c

\* Two connections, each with the finished job of its own request.
C16_Witness ==
    \E r1, r2 \in Reqs :
        /\ Valid(r1) /\ Valid(r2) /\ req[r1].conn = 1 /\ req[r2].conn = 2
        /\ Count(JobEvents(1, req[r1].id), "job-finished") = 1
        /\ Count(JobEvents(2, req[r2].id), "job-finished") = 1
        /\ Count(JobEvents(1, req[r1].id), "job-log") >= 1

\* C17: a single failure of the write that finalizes a job does not leave
\* the job row running once the close callback has ended.
C17_FinalizeRetried ==
    \A r \in Reqs : (fin[r].st = "threw" /\ faults = 1) =>
        \A j \in RowOf(r) : j.status # "running"

\* C18: no log row was inserted after its job was finalized: a job that is
\* success or failed has no log row later than its finished_at.
C18_NoLogRowAfterFinalize ==
    \A j \in jobs : \A i \in DOMAIN job_logs :
        (job_logs[i].job_id = j.id /\ j.status # "running") =>
            job_logs[i].timestamp < j.finished_at

\* The job-log events of (c, id, s) that carry the text data.
EventsWith(c, id, s, data) ==
    SelectSeq(events[c], LAMBDA e : /\ e.ev = "job-log" /\ e.jobId = id
                                    /\ e.stream = s /\ e.data = data)

\* The log rows of (id, s) that carry the text data.
RowsWith(id, s, data) == SelectSeq(LogRows(id, s), LAMBDA l : l.data = data)

\* C19: when a job-log event is on a connection, the store write of the same
\* chunk has been handed to the store before (the store has even executed
\* it): per job, stream and text there are at least as many log rows as
\* job-log events.
C19_StoreBeforeNotify ==
    \A c \in Conns : \A i \in DOMAIN events[c] :
        events[c][i].ev = "job-log" =>
            LET e == events[c][i] IN
            Len(EventsWith(c, e.jobId, e.stream, e.data))
                <= Len(RowsWith(e.jobId, e.stream, e.data))

\* A job-log event and the log row of its chunk.
C19_Witness ==
    \E r \in Reqs :
        /\ Valid(r)
        /\ Len(EmittedData(req[r].conn, req[r].id, "stdout")) = 2
        /\ Len(LogRows(req[r].id, "stdout")) = 2

\* C20: a step that finalizes a job changes status and finished_at of that
\* one row and nothing else in the store; a step that appends a log row
\* changes no job row and no earlier log row; a step that creates a job
\* changes no other row.
C20_StoreFrame ==
    [][/\ (jobs' # jobs /\ {j.id : j \in jobs'} = {j.id : j \in jobs}) =>
            /\ job_logs' = job_logs
            /\ \E j \in jobs : \E n \in jobs' :
                  /\ n.id = j.id /\ n.type = j.type /\ n.command = j.command
                  /\ n.started_at = j.started_at
                  /\ jobs' \ {n} = jobs \ {j}
       /\ ({j.id : j \in jobs'} # {j.id : j \in jobs}) =>
            /\ job_logs' = job_logs
            /\ jobs \subseteq jobs'
            /\ Cardinality(jobs') = Cardinality(jobs) + 1
       /\ job_logs' # job_logs =>
            /\ jobs' = jobs
            /\ Len(job_logs') = Len(job_logs) + 1
            /\ SubSeq(job_logs', 1, Len(job_logs)) = job_logs
      ]_vars

\* One job finalized while the row of another job and a log row exist.
C20_Witness ==
    \E j1, j2 \in jobs :
        /\ j1.id # j2.id
        /\ j1.status = "success" /\ j2.status = "running"
        /\ j2.started_at < j1.finished_at
        /\ \E i \in DOMAIN job_logs : job_logs[i].timestamp < j1.finished_at

\* The handler of request r has ended and the store holds no row of its job:
\* the insert of the job row was rejected.
InsertFailed(r) == Valid(r) /\ req[r].pc = "done" /\ RowOf(r) = {}

\* C21: job-started is on the requester's connection, or a process of the
\* request exists, only when the store holds the job row and the handler has
\* resumed after the insert; while the store holds no row of the job, the
\* request has no process, no output, no finalization and no job-started,
\* job-log or job-finished event; and the step that resumes the handler
\* after a rejected insert appends exactly one error event to the requester's
\* connection and spawns nothing.
C21_StartOnlyAfterInsert ==
    /\ [](\A r \in Reqs : Valid(r) =>
            /\ (proc[r] # "none" \/ JobEvents(req[r].conn, req[r].id) # <<>>) =>
                  /\ req[r].pc = "done"
                  /\ \E j \in RowOf(r) : j.command = cmdStrOf(COMMANDS[req[r].key])
            /\ RowOf(r) = {} =>
                  /\ proc[r] = "none"
                  /\ JobEvents(req[r].conn, req[r].id) = <<>>
                  /\ \A s \in Streams : chunks[r][s] = <<>>
                  /\ fin[r].st = "none")
    /\ [][\A r \in Reqs :
            (req[r].pc = "insert_err" /\ req'[r].pc # "insert_err") =>
                /\ req'[r].pc = "done"
                /\ Len(events'[req[r].conn]) = Len(events[req[r].conn]) + 1
                /\ SubSeq(events'[req[r].conn], 1, Len(events[req[r].conn]))
                      = events[req[r].conn]
                /\ events'[req[r].conn][Len(events'[req[r].conn])].ev = "error"
                /\ \A c \in Conns \ {req[r].conn} : events'[c] = events[c]
                /\ UNCHANGED <<proc, chunks, fin, jobs, job_logs, serverUp>>
         ]_vars

\* A request whose insert was rejected has ended with one error event on
\* its connection and no process.
C21_Witness ==
    \E r \in Reqs :
        /\ InsertFailed(r)
        /\ Count(events[req[r].conn], "error") = 1
        /\ Len(events[req[r].conn]) = 1
        /\ proc[r] = "none"

\* C22: a job-finished event of a job is on a connection only when the
\* close callback has resumed after the store executed its UPDATE, and the
\* job row then carries the status of the event and a finished_at; and the
\* answer to a history request made when a client had the job-finished
\* event of a job shows that job, if at all, with the status of the event,
\* never as running.
C22_FinishedAfterUpdate ==
    /\ \A r \in Reqs : Valid(r) =>
          \A i \in DOMAIN events[req[r].conn] :
              LET e == events[req[r].conn][i] IN
              (e.ev = "job-finished" /\ e.jobId = req[r].id) =>
                  /\ fin[r].st = "emitted"
                  /\ e.status = statusOf(e.exitCode)
                  /\ \E j \in RowOf(r) : /\ j.status = e.status
                                          /\ j.finished_at # NULL
    /\ http.pc \in {"ok", "done"} =>
          \A i \in DOMAIN http.body :
              http.body[i].id \in http.seen =>
                  /\ http.body[i].status # "running"
                  /\ \E j \in jobs : j.id = http.body[i].id
                                      /\ j.status = http.body[i].status

\* A history request made after a job-finished event with status failed
\* has been answered, and the answer shows the job as failed.
C22_Witness ==
    /\ http.pc = "done" /\ http.status = 200
    /\ \E i \in DOMAIN http.body :
          /\ http.body[i].id \in http.seen
          /\ http.body[i].status = "failed"
    /\ \E r \in Reqs : Valid(r) /\ fin[r] = [st |-> "emitted", status |-> "failed", code |-> 1]

====
